---- MODULE Spec2Model ----
(***************************************************************************)
(* skim-ec2: a fuzzy picker over EC2 instances (src/src/main.rs).           *)
(*                                                                         *)
(* main builds the filters, spawns a fetch task that streams the items of  *)
(* one DescribeInstances response (or one ErrorItem) over an unbounded     *)
(* channel, runs the skim picker on the receiving end and then prints the  *)
(* selected identifier or substitutes it into a shell command.             *)
(*                                                                         *)
(* Strings that the program inspects (filters, identifiers, templates,     *)
(* tag names, host names) are sequences of one-character strings; error    *)
(* messages, which are only passed along, are TLA+ strings.  An instance   *)
(* carries the attributes that text() and output() read; preview() of an   *)
(* InstanceItem is not part of the model.                                  *)
(***************************************************************************)
EXTENDS Naturals, Sequences, FiniteSets

VARIABLES
    args,           \* Args after Args::parse()
    service,        \* what the inventory service answers to the one query
    mainpc,         \* position of main: start, picker, returned, done
    taskpc,         \* position of the spawned task
    query,          \* filters attached to instances_query
    fetched,        \* result of get_instances inside the task
    sendq,          \* items the task still has to send
    chan,           \* items in the channel, sent and not yet received
    sent,           \* every item ever sent on the channel, in order
    senderAlive,    \* the Sender `s` has not been dropped
    receiverAlive,  \* the Receiver `r` has not been dropped
    items,          \* items the picker has read from the channel
    skim_output,    \* what Skim::run_with returned
    outcome         \* how the run ended

vars == <<args, service, mainpc, taskpc, query, fetched, sendq, chan, sent,
          senderAlive, receiverAlive, items, skim_output, outcome>>

---------------------------------------------------------------------------
(* Bounds of the model.                                                    *)

MaxFilterLen == 3
MaxIdLen == 2
MaxTemplateLen == 4
MaxGroups == 2
MaxPerGroup == 2

---------------------------------------------------------------------------
(* Option<T>, strings.                                                     *)

None == [tag |-> "None"]
Some(x) == [tag |-> "Some", val |-> x]
IsSome(o) == o.tag = "Some"

StringsUpTo(alphabet, n) == UNION {[1..k -> alphabet] : k \in 0..n}

\* &str::contains / starts_with at a position
StartsWithAt(s, pat, i) ==
    /\ i + Len(pat) - 1 <= Len(s)
    /\ \A j \in 1..Len(pat) : s[i + j - 1] = pat[j]

Contains(s, pat) == \E i \in 1..(Len(s) + 1) : StartsWithAt(s, pat, i)

\* str::find for a one-character pattern, scanning from position i; 0 = not found
RECURSIVE FindFrom(_, _, _)
FindFrom(s, c, i) ==
    IF i > Len(s) THEN 0
    ELSE IF s[i] = c THEN i
    ELSE FindFrom(s, c, i + 1)

\* a variant of split_once that splits at the last separator: str::rsplit_once
RECURSIVE FindBack(_, _, _)
FindBack(s, c, i) ==
    IF i < 1 THEN 0
    ELSE IF s[i] = c THEN i
    ELSE FindBack(s, c, i - 1)

rsplit_once(s, c) ==
    LET k == FindBack(s, c, Len(s))
    IN  IF k = 0 THEN None
        ELSE Some([name |-> SubSeq(s, 1, k - 1), value |-> SubSeq(s, k + 1, Len(s))])

\* f.split_once('=')
split_once(s, c) ==
    LET k == FindFrom(s, c, 1)
    IN  IF k = 0 THEN None
        ELSE Some([name |-> SubSeq(s, 1, k - 1), value |-> SubSeq(s, k + 1, Len(s))])

\* a variant of str::replace that stops after the first match: str::replacen(.., 1)
replace_first(s, pat, to) ==
    IF \E i \in 1..Len(s) : StartsWithAt(s, pat, i)
    THEN LET k == CHOOSE i \in 1..Len(s) :
                      /\ StartsWithAt(s, pat, i)
                      /\ \A j \in 1..(i - 1) : ~StartsWithAt(s, pat, j)
         IN  SubSeq(s, 1, k - 1) \o to \o SubSeq(s, k + Len(pat), Len(s))
    ELSE s

\* str::replace with a non-empty pattern: left to right, non-overlapping matches
RECURSIVE ReplaceFrom(_, _, _, _)
ReplaceFrom(s, pat, to, i) ==
    IF i > Len(s) THEN <<>>
    ELSE IF StartsWithAt(s, pat, i)
         THEN to \o ReplaceFrom(s, pat, to, i + Len(pat))
         ELSE <<s[i]>> \o ReplaceFrom(s, pat, to, i + 1)

replace(s, pat, to) == ReplaceFrom(s, pat, to, 1)

---------------------------------------------------------------------------
(* Results of operations that can panic.                                   *)

Ok(v) == [res |-> "ok", val |-> v]
Panic(m) == [res |-> "panic", msg |-> m]

---------------------------------------------------------------------------
(* String literals of the program.                                         *)

ErrorText == <<"e", "r", "r", "o", "r">>
DefaultTag == <<"N", "a", "m", "e">>
DefaultFilter ==
    <<"i", "n", "s", "t", "a", "n", "c", "e", "-", "s", "t", "a", "t", "e", "-",
      "n", "a", "m", "e", "=", "r", "u", "n", "n", "i", "n", "g">>
Placeholder == <<"{", "}">>

---------------------------------------------------------------------------
(* NameRule, InstanceItem, ErrorItem and their SkimItem implementations.   *)

RuleTag(t) == [rule |-> "Tag", tag |-> t]
RuleHost == [rule |-> "Host"]
RuleInstanceID == [rule |-> "InstanceID"]

InstanceItem(i, r) == [type |-> "InstanceItem", instance |-> i, name_rule |-> r]
ErrorItem(m) == [type |-> "ErrorItem", message |-> m]

\* tags.iter().find(|t| t.key == Some(tag)): index of the first match, 0 if none
RECURSIVE FindTag(_, _, _)
FindTag(tags, tag, i) ==
    IF i > Len(tags) THEN 0
    ELSE IF tags[i].key = Some(tag) THEN i
    ELSE FindTag(tags, tag, i + 1)

InstanceItem_text(item) ==
    LET inst == item.instance
        rule == item.name_rule
    IN  CASE rule.rule = "Tag" ->
               IF ~IsSome(inst.tags) THEN Panic("instance has no tags")
               ELSE LET k == FindTag(inst.tags.val, rule.tag, 1)
                    IN  IF k = 0 THEN Panic("tag for name not found")
                        ELSE IF ~IsSome(inst.tags.val[k].value)
                             THEN Panic("tag for name has no value")
                             ELSE Ok(inst.tags.val[k].value.val)
          [] rule.rule = "Host" ->
               IF IsSome(inst.public_dns_name) THEN Ok(inst.public_dns_name.val)
               ELSE IF IsSome(inst.private_dns_name) THEN Ok(inst.private_dns_name.val)
               ELSE Ok(<<>>)
          [] rule.rule = "InstanceID" ->
               IF IsSome(inst.instance_id) THEN Ok(inst.instance_id.val)
               ELSE Ok(<<>>)

ErrorItem_text(item) == Ok(ErrorText)

text(item) ==
    IF item.type = "ErrorItem" THEN ErrorItem_text(item) ELSE InstanceItem_text(item)

ErrorItem_preview(item) == item.message

\* a variant of InstanceItem::output with the body of the trait's provided method,
\* which returns the display text
output_is_text(item) == InstanceItem_text(item)

InstanceItem_output(item) ==
    IF IsSome(item.instance.instance_id)
    THEN Ok(item.instance.instance_id.val)
    ELSE Panic("instance has no id")

\* ErrorItem does not define output: SkimItem's provided method returns text()
output(item) ==
    IF item.type = "ErrorItem" THEN ErrorItem_text(item) ELSE InstanceItem_output(item)

---------------------------------------------------------------------------
(* shell_escape::escape as called on the selected identifier: a non-empty  *)
(* word of allowed characters is returned as it is; anything else is put   *)
(* in single quotes, with ' and ! written as '\'' and '\!'.                *)

\* the allowed characters among those the model's strings are made of
SafeChars ==
    {"a", "b", "c", "e", "g", "i", "k", "m", "n", "o", "r", "s", "t", "u", "v", "N",
     "0", "1", "-", "_", "=", "/", ",", ".", "+"}

RECURSIVE EscapeChars(_)
EscapeChars(s) ==
    IF s = <<>> THEN <<>>
    ELSE (IF Head(s) = "'" \/ Head(s) = "!"
          THEN <<"'", "\\", Head(s), "'">>
          ELSE <<Head(s)>>) \o EscapeChars(Tail(s))

escape(s) ==
    IF s # <<>> /\ \A i \in 1..Len(s) : s[i] \in SafeChars
    THEN s
    ELSE <<"'">> \o EscapeChars(s) \o <<"'">>

---------------------------------------------------------------------------
(* get_instances: the filter loop, the query and the flattening.           *)

Filter(n, vs) == [name |-> n, values |-> vs]

BuildFilter(f) ==
    LET sp == split_once(f, "=")
    IN  IF IsSome(sp) THEN Filter(sp.val.name, <<sp.val.value>>)
        ELSE Filter(f, <<>>)

RECURSIVE BuildFilters(_)
BuildFilters(fs) ==
    IF fs = <<>> THEN <<>>
    ELSE <<BuildFilter(Head(fs))>> \o BuildFilters(Tail(fs))

NameRuleOf(a) ==
    IF IsSome(a.name_tag) THEN RuleTag(a.name_tag.val)
    ELSE IF a.name_host THEN RuleHost
    ELSE IF a.name_id THEN RuleInstanceID
    ELSE RuleTag(DefaultTag)

\* a variant of the flattening that visits the groups last to first
RECURSIVE FlattenRev(_)
FlattenRev(rs) ==
    IF rs = <<>> THEN Ok(<<>>)
    ELSE IF ~IsSome(rs[Len(rs)].instances) THEN Panic("instances")
    ELSE LET rest == FlattenRev(SubSeq(rs, 1, Len(rs) - 1))
         IN  IF rest.res = "panic" THEN rest
             ELSE Ok(rs[Len(rs)].instances.val \o rest.val)

\* reservations.iter().flat_map(|r| r.instances().expect("instances").iter().cloned())
RECURSIVE Flatten(_)
Flatten(rs) ==
    IF rs = <<>> THEN Ok(<<>>)
    ELSE IF ~IsSome(Head(rs).instances) THEN Panic("instances")
    ELSE LET rest == Flatten(Tail(rs))
         IN  IF rest.res = "panic" THEN rest
             ELSE Ok(Head(rs).instances.val \o rest.val)

\* Result<Vec<InstanceItem>> of get_instances, or its panic
FetchOk(v) == [res |-> "ok", val |-> v]
FetchErr(m) == [res |-> "err", msg |-> m]

get_instances(a, svc) ==
    IF svc.kind = "error" THEN FetchErr(svc.message)
    ELSE IF ~IsSome(svc.reservations) THEN FetchErr("no reservations")
    ELSE LET flat == Flatten(svc.reservations.val)
             rule == NameRuleOf(a)
         IN  IF flat.res = "panic" THEN flat
             ELSE FetchOk([k \in 1..Len(flat.val) |-> InstanceItem(flat.val[k], rule)])

\* what the spawned task has to send for a result of get_instances
ToSend(r) ==
    IF r.res = "ok" THEN r.val ELSE <<ErrorItem(r.msg)>>

---------------------------------------------------------------------------
(* main after Skim::run_with has returned.                                 *)

Outcome(k, m, out, cmd) == [kind |-> k, msg |-> m, stdout |-> out, cmdline |-> cmd]
Running == Outcome("running", "", None, None)

CommandLine(cmdline, instance_id) ==
    LET id == escape(instance_id)
    IN  IF Contains(cmdline, Placeholder)
        THEN replace(cmdline, Placeholder, id)
        ELSE cmdline \o <<" ">> \o id

\* lines 209-234; exec_ok is whether exec() of sh replaced the process
AfterPicker(out, command, exec_ok) ==
    IF ~IsSome(out) THEN Outcome("error", "No output from skim", None, None)
    ELSE IF out.val.is_abort THEN Outcome("error", "skim aborted", None, None)
    ELSE IF out.val.selected_items = <<>> THEN Outcome("panic", "selected item", None, None)
    ELSE LET id == output(out.val.selected_items[1])
         IN  IF id.res = "panic" THEN Outcome("panic", id.msg, None, None)
             ELSE IF IsSome(command)
                  THEN IF exec_ok
                       THEN Outcome("exec", "", None, Some(CommandLine(command.val, id.val)))
                       ELSE Outcome("error", "failed to exec command", None,
                                    Some(CommandLine(command.val, id.val)))
                  ELSE Outcome("ok", "", Some(id.val), None)

---------------------------------------------------------------------------
(* Inputs: command lines and answers of the inventory service.             *)

Tag(k, v) == [key |-> k, value |-> v]

Instance(id, tags, pub, priv) ==
    [instance_id |-> id, tags |-> tags,
     public_dns_name |-> pub, private_dns_name |-> priv]

Args(filter, name_tag, name_host, name_id, command) ==
    [filter |-> filter, name_tag |-> name_tag, name_host |-> name_host,
     name_id |-> name_id, command |-> command]

Reservation(instances) == [instances |-> instances]
Response(reservations) == [kind |-> "ok", reservations |-> reservations]
TransportError(m) == [kind |-> "error", message |-> m]

\* a tagged instance with a private host only, an untagged one with both hosts, and
\* one without identifier and hosts whose Name tag has no value
Instances ==
    { Instance(Some(<<"a">>), Some(<<Tag(Some(DefaultTag), Some(<<"s">>))>>),
               None, Some(<<"1", "0">>)),
      Instance(Some(<<"b">>), None, Some(<<"e">>), Some(<<"0">>)),
      Instance(None,
               Some(<<Tag(Some(<<"o">>), Some(<<"r">>)), Tag(Some(DefaultTag), None)>>),
               None, None) }

IsInjective(q) == \A i, j \in 1..Len(q) : q[i] = q[j] => i = j

\* a reservation's instancesSet: absent, or up to MaxPerGroup distinct instances
Groups ==
    {Reservation(None)} \cup
    {Reservation(Some(q)) : q \in {x \in StringsUpTo(Instances, MaxPerGroup) : IsInjective(x)}}

RECURSIVE AllInstances(_)
AllInstances(rs) ==
    IF rs = <<>> THEN <<>>
    ELSE (IF IsSome(Head(rs).instances) THEN Head(rs).instances.val ELSE <<>>)
         \o AllInstances(Tail(rs))

\* an instance belongs to one reservation
Services ==
    {TransportError("dispatch failure"), TransportError("service error"), Response(None)} \cup
    {Response(Some(rs)) :
        rs \in {x \in StringsUpTo(Groups, MaxGroups) : IsInjective(AllInstances(x))}}

Template == <<"s", " ", "{", "}">>

PipelineArgs ==
    {Args(<<>>, nt, nh, ni, c) :
        nt \in {None, Some(<<"o">>)}, nh \in BOOLEAN, ni \in BOOLEAN,
        c \in {None, Some(Template)}}

FilterStrings == StringsUpTo({"k", "v", "="}, MaxFilterLen)

FilterLists ==
    {<<>>} \cup {<<f>> : f \in FilterStrings} \cup {<<f, g>> : f, g \in FilterStrings}

IdStrings == StringsUpTo({"i", "'", "{", "}"}, MaxIdLen)

Templates == StringsUpTo({"s", "{", "}"}, MaxTemplateLen)

---------------------------------------------------------------------------
(* The run.                                                                *)

NotReturned == [tag |-> "NotReturned"]
NotFetched == [res |-> "none"]
SkimOutput(abort, selected) == [is_abort |-> abort, selected_items |-> selected]

Init ==
    /\ args \in PipelineArgs
    /\ service \in Services
    /\ mainpc = "start"
    /\ taskpc = "unspawned"
    /\ query = <<>>
    /\ fetched = NotFetched
    /\ sendq = <<>>
    /\ chan = <<>>
    /\ sent = <<>>
    /\ senderAlive = FALSE
    /\ receiverAlive = FALSE
    /\ items = <<>>
    /\ skim_output = NotReturned
    /\ outcome = Running

\* main up to Skim::run_with: the default filter, unbounded(), tokio::spawn
MainStart ==
    /\ mainpc = "start"
    /\ args' = IF args.filter = <<>> THEN [args EXCEPT !.filter = <<DefaultFilter>>] ELSE args
    /\ senderAlive' = TRUE
    /\ receiverAlive' = TRUE
    /\ taskpc' = "spawned"
    /\ mainpc' = "picker"
    /\ UNCHANGED <<service, query, fetched, sendq, chan, sent, items, skim_output, outcome>>

\* the task's first poll: get_instances builds the query and awaits send()
TaskBuildQuery ==
    /\ taskpc = "spawned"
    /\ query' = BuildFilters(args.filter)
    /\ taskpc' = "await"
    /\ UNCHANGED <<args, service, mainpc, fetched, sendq, chan, sent, senderAlive,
                   receiverAlive, items, skim_output, outcome>>

\* the response arrives and get_instances returns (or panics, which drops `s`)
TaskFetched ==
    /\ taskpc = "await"
    /\ LET r == get_instances(args, service)
       IN  /\ fetched' = r
           /\ IF r.res = "panic"
              THEN /\ taskpc' = "panicked"
                   /\ senderAlive' = FALSE
                   /\ sendq' = <<>>
              ELSE /\ taskpc' = "sending"
                   /\ senderAlive' = senderAlive
                   /\ sendq' = ToSend(r)
    /\ UNCHANGED <<args, service, mainpc, query, chan, sent, receiverAlive, items,
                   skim_output, outcome>>

\* s.send(x).expect("send error"): an error, hence a panic, once the receiver is gone
TaskSend ==
    /\ taskpc = "sending"
    /\ sendq # <<>>
    /\ IF receiverAlive
       THEN /\ chan' = Append(chan, Head(sendq))
            /\ sent' = Append(sent, Head(sendq))
            /\ sendq' = Tail(sendq)
            /\ UNCHANGED <<taskpc, senderAlive>>
       ELSE /\ taskpc' = "panicked"
            /\ senderAlive' = FALSE
            /\ UNCHANGED <<chan, sent, sendq>>
    /\ UNCHANGED <<args, service, mainpc, query, fetched, receiverAlive, items,
                   skim_output, outcome>>

\* the end of the async block drops `s`
TaskEnd ==
    /\ taskpc = "sending"
    /\ sendq = <<>>
    /\ taskpc' = "done"
    /\ senderAlive' = FALSE
    /\ UNCHANGED <<args, service, mainpc, query, fetched, sendq, chan, sent,
                   receiverAlive, items, skim_output, outcome>>

\* main has returned: the runtime drops a task that is suspended at an await, and
\* exec() replaces the process whatever the task is doing
TaskDropped ==
    /\ mainpc = "done"
    /\ \/ taskpc \in {"spawned", "await"}
       \/ taskpc = "sending" /\ outcome.kind = "exec"
    /\ taskpc' = "cancelled"
    /\ senderAlive' = FALSE
    /\ UNCHANGED <<args, service, mainpc, query, fetched, sendq, chan, sent,
                   receiverAlive, items, skim_output, outcome>>

\* the picker reads an item and shows it, which calls text()
PickerRecv ==
    /\ mainpc = "picker"
    /\ chan # <<>>
    /\ chan' = Tail(chan)
    /\ items' = Append(items, Head(chan))
    /\ IF text(Head(chan)).res = "panic"
       THEN /\ mainpc' = "done"
            /\ outcome' = Outcome("panic", text(Head(chan)).msg, None, None)
            /\ receiverAlive' = FALSE
       ELSE UNCHANGED <<mainpc, outcome, receiverAlive>>
    /\ UNCHANGED <<args, service, taskpc, query, fetched, sendq, sent, senderAlive,
                   skim_output>>

\* Skim::run_with returns None
PickerNone ==
    /\ mainpc = "picker"
    /\ items = <<>>
    /\ skim_output' = None
    /\ receiverAlive' = FALSE
    /\ mainpc' = "returned"
    /\ UNCHANGED <<args, service, taskpc, query, fetched, sendq, chan, sent, senderAlive,
                   items, outcome>>

\* the operator aborts
PickerAbort ==
    /\ mainpc = "picker"
    /\ skim_output' = Some(SkimOutput(TRUE, <<>>))
    /\ receiverAlive' = FALSE
    /\ mainpc' = "returned"
    /\ UNCHANGED <<args, service, taskpc, query, fetched, sendq, chan, sent, senderAlive,
                   items, outcome>>

\* the operator accepts: the item under the cursor, or nothing when no item is listed
PickerAccept ==
    /\ mainpc = "picker"
    /\ \E sel \in {<<>>} \cup {<<items[i]>> : i \in 1..Len(items)} :
          skim_output' = Some(SkimOutput(FALSE, sel))
    /\ receiverAlive' = FALSE
    /\ mainpc' = "returned"
    /\ UNCHANGED <<args, service, taskpc, query, fetched, sendq, chan, sent, senderAlive,
                   items, outcome>>

\* main from the result of Skim::run_with to its return
MainFinish ==
    /\ mainpc = "returned"
    /\ \E exec_ok \in BOOLEAN :
          outcome' = AfterPicker(skim_output, args.command, exec_ok)
    /\ mainpc' = "done"
    /\ UNCHANGED <<args, service, taskpc, query, fetched, sendq, chan, sent, senderAlive,
                   receiverAlive, items, skim_output>>

Next ==
    \/ MainStart
    \/ TaskBuildQuery
    \/ TaskFetched
    \/ TaskSend
    \/ TaskEnd
    \/ TaskDropped
    \/ PickerRecv
    \/ PickerNone
    \/ PickerAbort
    \/ PickerAccept
    \/ MainFinish

Spec == Init /\ [][Next]_vars

---------------------------------------------------------------------------
(* The filter builder on its own: every list of filter strings, through    *)
(* main's default and the loop of get_instances.                           *)

InitFilter ==
    /\ args \in {Args(fs, None, FALSE, FALSE, None) : fs \in FilterLists}
    /\ service = TransportError("dispatch failure")
    /\ mainpc = "start"
    /\ taskpc = "unspawned"
    /\ query = <<>>
    /\ fetched = NotFetched
    /\ sendq = <<>>
    /\ chan = <<>>
    /\ sent = <<>>
    /\ senderAlive = FALSE
    /\ receiverAlive = FALSE
    /\ items = <<>>
    /\ skim_output = NotReturned
    /\ outcome = Running

NextFilter ==
    \/ MainStart
    \/ TaskBuildQuery

SpecFilter == InitFilter /\ [][NextFilter]_vars

---------------------------------------------------------------------------
(* The action executor on its own: the picker has returned the one item of *)
(* a one-instance inventory; every identifier and every template.          *)

ExecItem(id) == InstanceItem(Instance(Some(id), None, None, None), RuleInstanceID)

InitExec ==
    \E id \in IdStrings, c \in {None} \cup {Some(t) : t \in Templates} :
        /\ args = Args(<<DefaultFilter>>, None, FALSE, TRUE, c)
        /\ service = Response(Some(<<Reservation(Some(<<ExecItem(id).instance>>))>>))
        /\ mainpc = "returned"
        /\ taskpc = "done"
        /\ query = BuildFilters(<<DefaultFilter>>)
        /\ fetched = FetchOk(<<ExecItem(id)>>)
        /\ sendq = <<>>
        /\ chan = <<>>
        /\ sent = <<ExecItem(id)>>
        /\ senderAlive = FALSE
        /\ receiverAlive = FALSE
        /\ items = <<ExecItem(id)>>
        /\ skim_output = Some(SkimOutput(FALSE, <<ExecItem(id)>>))
        /\ outcome = Running

NextExec == MainFinish

SpecExec == InitExec /\ [][NextExec]_vars

---------------------------------------------------------------------------
(* Properties.                                                             *)

HasSelection ==
    /\ skim_output.tag = "Some"
    /\ ~skim_output.val.is_abort
    /\ skim_output.val.selected_items # <<>>

Selected == skim_output.val.selected_items[1]

Aborted == skim_output.tag = "Some" /\ skim_output.val.is_abort

ChannelClosed == mainpc # "start" /\ ~senderAlive

TaskOver == taskpc \in {"done", "panicked", "cancelled"}

\* C1: whenever the channel is closed, exactly one terminal event went through it:
\* the items of a successful fetch, all of them and nothing else, or the one
\* ErrorItem of a failed fetch; and a task that is over has closed the channel.
C1_OneTerminalEvent ==
    /\ TaskOver => ChannelClosed
    /\ ChannelClosed =>
          \/ fetched.res = "ok" /\ sent = fetched.val
          \/ fetched.res = "err" /\ sent = <<ErrorItem(fetched.msg)>>

\* C2: a failed fetch puts exactly one ErrorItem on the channel, whose preview is
\* the error message; and a run in which the ErrorItem is the selected item ends as
\* a failure that prints nothing and builds no command line.
C2_ErrorItemNeverOutput ==
    /\ (taskpc = "done" /\ fetched.res = "err") =>
          /\ Len(sent) = 1
          /\ sent[1].type = "ErrorItem"
          /\ ErrorItem_preview(sent[1]) =
                (IF service.kind = "error" THEN service.message ELSE "no reservations")
    /\ (mainpc = "done" /\ HasSelection /\ Selected.type = "ErrorItem") =>
          /\ outcome.kind = "error"
          /\ outcome.stdout = None
          /\ outcome.cmdline = None

\* the number of resources in the groups before group g
RECURSIVE Offset(_, _)
Offset(rs, g) ==
    IF g = 1 THEN 0 ELSE Offset(rs, g - 1) + Len(rs[g - 1].instances.val)

\* C3: on a successful fetch, the j-th resource of the g-th group of the response is
\* the item sent at position (resources in earlier groups) + j; nothing else is
\* sent; a task that ends has sent them all; and the picker reads them in that order.
C3_FetchOrder ==
    fetched.res = "ok" =>
        LET rs == service.reservations.val
            total == Offset(rs, Len(rs) + 1)
        IN  /\ Len(sent) <= total
            /\ \A g \in 1..Len(rs) : \A j \in 1..Len(rs[g].instances.val) :
                  Offset(rs, g) + j <= Len(sent) =>
                      /\ sent[Offset(rs, g) + j].type = "InstanceItem"
                      /\ sent[Offset(rs, g) + j].instance = rs[g].instances.val[j]
            /\ taskpc = "done" => Len(sent) = total
            /\ items \o chan = sent

\* C3 witness: two groups, the first with two resources, all three sent and read.
C3_Witness ==
    /\ fetched.res = "ok"
    /\ taskpc = "done"
    /\ Len(service.reservations.val) = 2
    /\ Len(service.reservations.val[1].instances.val) = 2
    /\ Len(service.reservations.val[2].instances.val) = 1
    /\ Len(items) = 3

\* C4: get_instances returns an error exactly when the call fails or the response
\* has no reservations, and never panics.
C4_ErrorExactlyWhenNoGroups ==
    fetched.res # "none" =>
        /\ fetched.res # "panic"
        /\ fetched.res = "err" <=> (service.kind = "error" \/ ~IsSome(service.reservations))

ZeroResources ==
    /\ service.kind = "ok"
    /\ IsSome(service.reservations)
    /\ \A g \in 1..Len(service.reservations.val) :
          /\ IsSome(service.reservations.val[g].instances)
          /\ service.reservations.val[g].instances.val = <<>>

\* C5: when no resource matches, the task ends with the channel closed and nothing
\* sent, and main, once the picker has returned over that closed, empty channel,
\* ends as a reported failure: no panic, nothing printed, no command line.
C5_NoSelectionOnEmpty ==
    [][ ZeroResources =>
          /\ taskpc' = "done" => (sent' = <<>> /\ ~senderAlive')
          /\ (taskpc = "done" /\ mainpc = "returned" /\ mainpc' = "done") =>
                /\ outcome'.kind = "error"
                /\ outcome'.stdout = None
                /\ outcome'.cmdline = None
      ]_vars

\* C6: the display text of every item the picker reads is computed without a panic.
C6_TextNeverPanics ==
    \A k \in 1..Len(items) : text(items[k]).res = "ok"

Rules == {RuleTag(DefaultTag), RuleTag(<<"o">>), RuleHost, RuleInstanceID}

\* C7: the output value of an instance item is the instance's identifier under every
\* name rule, and that identifier is what a run that selects the item prints.
C7_OutputIsIdentifier ==
    /\ \A k \in 1..Len(items) :
          (items[k].type = "InstanceItem" /\ IsSome(items[k].instance.instance_id)) =>
              \A r \in Rules :
                  output([items[k] EXCEPT !.name_rule = r]) =
                      Ok(items[k].instance.instance_id.val)
    /\ (mainpc = "done" /\ HasSelection /\ Selected.type = "InstanceItem"
            /\ outcome.kind = "ok") =>
          /\ IsSome(Selected.instance.instance_id)
          /\ outcome.stdout = Some(Selected.instance.instance_id.val)

\* C7 witness: an item named by its Name tag is selected and its identifier printed.
C7_Witness ==
    /\ mainpc = "done"
    /\ HasSelection
    /\ Selected.type = "InstanceItem"
    /\ Selected.name_rule = RuleTag(DefaultTag)
    /\ text(Selected) = Ok(<<"s">>)
    /\ outcome.kind = "ok"
    /\ outcome.stdout = Some(<<"a">>)

StateName ==
    <<"i", "n", "s", "t", "a", "n", "c", "e", "-", "s", "t", "a", "t", "e", "-",
      "n", "a", "m", "e">>
RunningValue == <<"r", "u", "n", "n", "i", "n", "g">>

HasEquals(f) == \E i \in 1..Len(f) : f[i] = "="

\* predicate p is what filter string f asks for
PredicateFor(p, f) ==
    IF HasEquals(f)
    THEN /\ ~HasEquals(p.name)
         /\ Len(p.values) = 1
         /\ p.name \o <<"=">> \o p.values[1] = f
    ELSE /\ p.name = f
         /\ p.values = <<>>

\* C8: main replaces an empty filter list by instance-state-name=running and leaves
\* any other list alone; the query then carries one predicate per string, in order:
\* the text before the first '=' as name and the text after it as the one value, or
\* the whole string as name and no value when it has no '='.
C8_FilterBuilder ==
    [][ /\ (mainpc = "start" /\ mainpc' = "picker") =>
              args'.filter = (IF args.filter = <<>>
                              THEN <<StateName \o <<"=">> \o RunningValue>>
                              ELSE args.filter)
        /\ (taskpc = "spawned" /\ taskpc' = "await") =>
              /\ args' = args
              /\ Len(query') = Len(args.filter)
              /\ \A i \in 1..Len(args.filter) : PredicateFor(query'[i], args.filter[i])
              /\ args.filter = <<StateName \o <<"=">> \o RunningValue>> =>
                    query' = <<Filter(StateName, <<RunningValue>>)>>
      ]_vars

\* C8 witness: a bare name followed by a string whose value itself contains '='.
C8_Witness ==
    /\ taskpc = "await"
    /\ args.filter = << <<"k">>, <<"k", "=", "=">> >>
    /\ query = <<Filter(<<"k">>, <<>>), Filter(<<"k">>, << <<"=">> >>)>>

RECURSIVE Concat(_)
Concat(ss) == IF ss = <<>> THEN <<>> ELSE Head(ss) \o Concat(Tail(ss))

\* template t with e in the place of each "{}": position by position, e where a
\* placeholder starts, nothing where it ends, the character itself elsewhere
Substituted(t, e) ==
    Concat([i \in 1..Len(t) |->
        IF i < Len(t) /\ t[i] = "{" /\ t[i + 1] = "}" THEN e
        ELSE IF i > 1 /\ t[i - 1] = "{" /\ t[i] = "}" THEN <<>>
        ELSE <<t[i]>>])

HasPlaceholder(t) == \E i \in 1..(Len(t) - 1) : t[i] = "{" /\ t[i + 1] = "}"

\* C9: for a selected identifier: without a template it is printed and no command
\* line is built; with a template that holds "{}" the command line is the template
\* with the escaped identifier in the place of each "{}"; with any other template it
\* is the template, a space and the escaped identifier.
C9_ActionExecutor ==
    (mainpc = "done" /\ HasSelection /\ output(Selected).res = "ok") =>
        LET id == Selected.instance.instance_id.val
        IN  IF ~IsSome(args.command)
            THEN outcome = Outcome("ok", "", Some(id), None)
            ELSE /\ outcome.kind \in {"exec", "error"}
                 /\ outcome.stdout = None
                 /\ outcome.cmdline =
                       Some(IF HasPlaceholder(args.command.val)
                            THEN Substituted(args.command.val, escape(id))
                            ELSE args.command.val \o <<" ">> \o escape(id))

\* C9 witness: two placeholders and an identifier that needs quoting.
C9_Witness ==
    /\ mainpc = "done"
    /\ outcome.kind = "exec"
    /\ args.command = Some(<<"{", "}", "{", "}">>)
    /\ Selected.instance.instance_id = Some(<<"{", "}">>)
    /\ outcome.cmdline = Some(<<"'", "{", "}", "'", "'", "{", "}", "'">>)

\* C10: once the operator has aborted, the task is neither cancelled nor does it
\* fail at a send, and the run ends with the abort error.
C10_AbortLeavesTaskAlone ==
    Aborted =>
        /\ taskpc # "cancelled"
        /\ ~(taskpc = "panicked" /\ fetched.res # "panic")
        /\ mainpc = "done" => outcome = Outcome("error", "skim aborted", None, None)

====
